---- MODULE Spec2Model ----
(***************************************************************************)
(* Session / token lifecycle of the auth SDK: the ApiService (credential   *)
(* store, request and response interceptors, authentication methods) and   *)
(* the AuthProvider (reducer store and provider methods).                  *)
(*                                                                         *)
(* JavaScript is single threaded: a network answer is one macrotask, and   *)
(* the promise continuations it triggers run to completion before the next *)
(* macrotask.  One action is therefore one macrotask; the only place where *)
(* a continuation is kept as a step of its own is the resumption of an     *)
(* interceptor that awaited refreshAccessToken (variable resume), and no   *)
(* other action is enabled while it is pending.                            *)
(***************************************************************************)
EXTENDS Integers, FiniteSets, Sequences, TLC

\* ---------------------------------------------------------------- bounds
\* number of ApiService method calls (each one request config) in a run of
\* the transport specification and of the provider specification
MaxReq == 4
MaxCalls == 3
\* the same for the specification of the authentication and profile methods
MaxAuth == 2
\* longest permission list of a user or of a route
MaxPerms == 2
\* getUserStats calls and effect runs of one useStats instance
MaxPolls == 3
MaxRenders == 3
\* calls a form may make
MaxForm == 3

\* ------------------------------------------------------------- constants
\* null token / absent header
Null == 0
\* default storage keys used when the configuration names none
TokenKey == "spirit_ai_token"
RefreshTokenKey == "spirit_ai_refresh_token"
Keys == {TokenKey, RefreshTokenKey}

NoError == "null"
NoUser == [uid |-> 0, role |-> "none"]
\* a Partial<User> that names no role
NoPartial == [role |-> "none"]
\* users the remote service may return
ServerUsers == {[uid |-> 1, role |-> "user"], [uid |-> 1, role |-> "super_admin"]}

\* login, loginWithFirebase and register share one shape
AuthKinds == {"login", "firebase", "register"}

VARIABLES
  token,              \* ApiService.token
  refreshToken,       \* ApiService.refreshToken
  storage,            \* localStorage, by key
  req,                \* the ApiService calls made so far and their request configs
  store,              \* AuthProvider reducer state
  resume,             \* interceptor continuation waiting to run (microtask)
  tokenExpiredCalls,  \* invocations of config.onTokenExpired
  nextTok,            \* next token the remote service issues
  mounted,            \* initializeAuth effect has run
  config,             \* SdkConfig: is onTokenExpired configured
  cap,                \* number of calls this run may make
  pure,               \* arguments and result of the function under evaluation
  ui                  \* the component under observation: a hook or a form

vars == <<token, refreshToken, storage, req, store, resume, tokenExpiredCalls, nextTok, mounted, config, cap, pure, ui>>

ReqIds == DOMAIN req

\* the state as one record, so that handlers compose as functions
Cur == [token |-> token, refreshToken |-> refreshToken, storage |-> storage,
        req |-> req, store |-> store, resume |-> resume,
        tokenExpiredCalls |-> tokenExpiredCalls, nextTok |-> nextTok,
        mounted |-> mounted, config |-> config, cap |-> cap, pure |-> pure,
        ui |-> ui]

Becomes(s) ==
  /\ token' = s.token
  /\ refreshToken' = s.refreshToken
  /\ storage' = s.storage
  /\ req' = s.req
  /\ store' = s.store
  /\ resume' = s.resume
  /\ tokenExpiredCalls' = s.tokenExpiredCalls
  /\ nextTok' = s.nextTok
  /\ mounted' = s.mounted
  /\ config' = s.config
  /\ cap' = s.cap
  /\ pure' = s.pure
  /\ ui' = s.ui

\* ------------------------------------------------------ Session State Store
initialState ==
  [user |-> NoUser, token |-> Null, refreshToken |-> Null, loading |-> TRUE,
   error |-> NoError, isAuthenticated |-> FALSE, isAdmin |-> FALSE,
   isSuperAdmin |-> FALSE]

\* variant: SET_USER derives isAdmin from the ADMIN role alone
authReducer_AdminOnly(state, type, payload) ==
  CASE type = "SET_LOADING" -> [state EXCEPT !.loading = payload]
    [] type = "SET_USER" ->
         [state EXCEPT !.user = payload,
                       !.isAuthenticated = (payload # NoUser),
                       !.isAdmin = (payload.role = "admin"),
                       !.isSuperAdmin = (payload.role = "super_admin"),
                       !.loading = FALSE,
                       !.error = NoError]
    [] type = "SET_TOKEN" -> [state EXCEPT !.token = payload]
    [] type = "SET_REFRESH_TOKEN" -> [state EXCEPT !.refreshToken = payload]
    [] type = "SET_ERROR" -> [state EXCEPT !.error = payload, !.loading = FALSE]
    [] type = "CLEAR_ERROR" -> [state EXCEPT !.error = NoError]
    [] type = "LOGOUT" -> [initialState EXCEPT !.loading = FALSE]
    [] OTHER -> state

authReducer(state, type, payload) ==
  CASE type = "SET_LOADING" -> [state EXCEPT !.loading = payload]
    [] type = "SET_USER" ->
         [state EXCEPT !.user = payload,
                       !.isAuthenticated = (payload # NoUser),
                       !.isAdmin = (payload.role = "admin" \/ payload.role = "super_admin"),
                       !.isSuperAdmin = (payload.role = "super_admin"),
                       !.loading = FALSE,
                       !.error = NoError]
    [] type = "SET_TOKEN" -> [state EXCEPT !.token = payload]
    [] type = "SET_REFRESH_TOKEN" -> [state EXCEPT !.refreshToken = payload]
    [] type = "SET_ERROR" -> [state EXCEPT !.error = payload, !.loading = FALSE]
    [] type = "CLEAR_ERROR" -> [state EXCEPT !.error = NoError]
    [] type = "LOGOUT" -> [initialState EXCEPT !.loading = FALSE]
    [] OTHER -> state

dispatch(s, type, payload) ==
  [s EXCEPT !.store = authReducer(s.store, type, payload)]

\* --------------------------------------------------------- Credential Store
saveTokensToStorage(s, t, rt) ==
  [s EXCEPT !.token = t, !.refreshToken = rt,
            !.storage = [k \in Keys |-> IF k = TokenKey THEN t ELSE rt]]

\* variant: only the access token is removed
clearTokensFromStorage_AccessOnly(s) ==
  [s EXCEPT !.token = Null, !.storage = [@ EXCEPT ![TokenKey] = Null]]

clearTokensFromStorage(s) ==
  [s EXCEPT !.token = Null, !.refreshToken = Null,
            !.storage = [k \in Keys |-> Null]]

hasToken(s) == s.token # Null


\* ------------------------------------------------------------ Transport Client
\* one ApiService call: its request config (retry = _retry, hdr = the
\* Authorization header of the latest send) and what became of it
FreeReq ==
  [kind |-> "none", parent |-> 0, st |-> "free", retry |-> FALSE, sent |-> 0,
   hdr |-> Null, body |-> Null, kids |-> 0, ans |-> "none", out |-> "none",
   svc |-> "none", err |-> "none", ret |-> "none", issued |-> Null,
   refreshRes |-> "none", user |-> NoUser, data |-> NoPartial]

NoResume == [id |-> 0, res |-> "none"]

\* answers of the remote service: 2xx success=true, 2xx success=false,
\* status 401, another error status, no response at all
Answers == {"ok", "fail", "s401", "err", "noresp"}

Used(s) == Len(s.req)
HasSlot(s) == Used(s) < s.cap

\* variant: the request interceptor attaches nothing
requestInterceptor_NoHeader(tok, hdr) == hdr

\* request interceptor: the header is (re)written only when a token is held
requestInterceptor(tok, hdr) == IF tok # Null THEN tok ELSE hdr

\* this.api.post / get / patch: a new request config is sent
send(s, kind, parent) ==
  [s EXCEPT !.req = Append(@,
     [FreeReq EXCEPT !.kind = kind, !.parent = parent, !.st = "inflight",
                     !.sent = 1, !.hdr = requestInterceptor(s.token, Null),
                     !.body = IF kind = "refresh" THEN s.refreshToken ELSE Null])]

\* variant: the retried config keeps the Authorization header of its first send
resend_StaleHeader(s, r) ==
  [s EXCEPT !.req[r].st = "inflight", !.req[r].sent = @ + 1,
            !.req[r].ans = "none"]

\* this.api(originalRequest): the same config is sent again
resend(s, r) ==
  [s EXCEPT !.req[r].st = "inflight", !.req[r].sent = @ + 1,
            !.req[r].ans = "none",
            !.req[r].hdr = requestInterceptor(s.token, s.token)]

\* variant: the held refresh token is not consulted
shouldRefresh_AnyToken(ans, rt, retry) == ans = "s401" /\ ~retry

\* variant: the _retry mark of the request is not consulted
shouldRefresh_IgnoreRetry(ans, rt, retry) == ans = "s401" /\ rt # Null

\* condition of the response interceptor for starting a refresh
shouldRefresh(ans, rt, retry) == ans = "s401" /\ rt # Null /\ ~retry

\* handleError: the message of the normalized error (the service's envelopes
\* are taken to carry a message)
handleErrorMessage(ans) ==
  IF ans = "noresp" THEN "Network error occurred" ELSE "server message"

\* message of the Error thrown for a success=false envelope
envelopeMessage == "server message"

onTokenExpired(s) ==
  IF s.config.onTokenExpired
    THEN [s EXCEPT !.tokenExpiredCalls = @ + 1]
    ELSE s

\* ---------------------------------------------------------- Auth Session Service
\* Each operator below is the part of an ApiService method that runs after its
\* awaited request settled with out: "ok" (2xx, success=true), "fail" (2xx,
\* success=false) or "rejected" (the response interceptor rejected).  It yields
\* the new state and how the method ended: res is "value", "true", "false",
\* "null" or "threw".
\* variant: only the access token of the response is saved
ApiService_login_AccessOnly(s, out) ==
  IF out = "ok"
    THEN [s |-> [saveTokensToStorage(s, s.nextTok, s.refreshToken) EXCEPT !.nextTok = @ + 1],
          res |-> "value"]
    ELSE [s |-> s, res |-> "threw"]

ApiService_login(s, out) ==
  IF out = "ok"
    THEN [s |-> [saveTokensToStorage(s, s.nextTok, s.nextTok) EXCEPT !.nextTok = @ + 1],
          res |-> "value"]
    ELSE [s |-> s, res |-> "threw"]

\* variant: a successful refresh stores a new refresh token as well
ApiService_refreshAccessToken_Rotate(s, out) ==
  CASE out = "ok" ->
         [s |-> [saveTokensToStorage(s, s.nextTok, s.nextTok) EXCEPT !.nextTok = @ + 1],
          res |-> "true"]
    [] out = "fail" -> [s |-> clearTokensFromStorage(s), res |-> "false"]
    [] OTHER -> [s |-> s, res |-> "threw"]

ApiService_refreshAccessToken(s, out) ==
  CASE out = "ok" ->
         [s |-> [s EXCEPT !.token = s.nextTok,
                          !.storage = [@ EXCEPT ![TokenKey] = s.nextTok],
                          !.nextTok = @ + 1],
          res |-> "true"]
    [] out = "fail" -> [s |-> clearTokensFromStorage(s), res |-> "false"]
    [] OTHER -> [s |-> s, res |-> "threw"]

\* variant: the remote call is awaited outside the try block
ApiService_logout_NoCatch(s, out) ==
  IF out = "rejected"
    THEN [s |-> s, res |-> "threw"]
    ELSE [s |-> clearTokensFromStorage(s), res |-> "value"]

ApiService_logout(s, out) ==
  [s |-> clearTokensFromStorage(s), res |-> "value"]

ApiService_verifyToken(s, out) ==
  CASE out = "ok" -> [s |-> s, res |-> "value"]
    [] out = "fail" -> [s |-> s, res |-> "null"]
    [] OTHER -> [s |-> clearTokensFromStorage(s), res |-> "null"]

ApiService_updateProfile(s, out) ==
  IF out = "ok" THEN [s |-> s, res |-> "value"] ELSE [s |-> s, res |-> "threw"]

\* the message of what an ApiService method threw
thrownMessage(s, r, out) ==
  IF out = "fail" THEN envelopeMessage ELSE handleErrorMessage(s.req[r].ans)

\* ------------------------------------------------------------------ AuthProvider
\* Each operator is the part of a provider method that runs after the awaited
\* ApiService method ended with res; it yields the state and the value the
\* provider method returns.
\* variant: a failure also resets the session
AuthProvider_login_ResetOnError(s, res, u, t, rt, msg) ==
  IF res = "value"
    THEN [s |-> dispatch(dispatch(dispatch(s, "SET_USER", u), "SET_TOKEN", t),
                         "SET_REFRESH_TOKEN", rt),
          ret |-> "true"]
    ELSE [s |-> dispatch(dispatch(s, "LOGOUT", Null), "SET_ERROR", msg), ret |-> "false"]

\* variant: a result that arrives when a user is already set is dropped
AuthProvider_login_KeepFirst(s, res, u, t, rt, msg) ==
  IF res = "value"
    THEN [s |-> IF s.store.user # NoUser
                  THEN s
                  ELSE dispatch(dispatch(dispatch(s, "SET_USER", u), "SET_TOKEN", t),
                                "SET_REFRESH_TOKEN", rt),
          ret |-> "true"]
    ELSE [s |-> dispatch(s, "SET_ERROR", msg), ret |-> "false"]

AuthProvider_login(s, res, u, t, rt, msg) ==
  IF res = "value"
    THEN [s |-> dispatch(dispatch(dispatch(s, "SET_USER", u), "SET_TOKEN", t),
                         "SET_REFRESH_TOKEN", rt),
          ret |-> "true"]
    ELSE [s |-> dispatch(s, "SET_ERROR", msg), ret |-> "false"]

AuthProvider_logout(s, res) ==
  [s |-> dispatch(s, "LOGOUT", Null), ret |-> "void"]

AuthProvider_refreshAccessToken(s, res) ==
  IF res = "true"
    THEN [s |-> dispatch(s, "SET_TOKEN", s.token), ret |-> "true"]
    ELSE [s |-> dispatch(s, "LOGOUT", Null), ret |-> "false"]

initializeAuth(s, res, u) ==
  IF res = "value"
    THEN [s |-> dispatch(dispatch(dispatch(s, "SET_USER", u), "SET_TOKEN", s.token),
                         "SET_REFRESH_TOKEN", s.refreshToken),
          ret |-> "void"]
    ELSE [s |-> dispatch(s, "LOGOUT", Null), ret |-> "void"]

\* variant: the partial input is merged into the stored user
AuthProvider_updateProfile_Merge(s, res, u, msg, data) ==
  IF res = "value"
    THEN [s |-> dispatch(s, "SET_USER",
                         IF data = NoPartial THEN s.store.user
                         ELSE [s.store.user EXCEPT !.role = data.role]),
          ret |-> "true"]
    ELSE [s |-> dispatch(s, "SET_ERROR", msg), ret |-> "false"]

AuthProvider_updateProfile(s, res, u, msg, data) ==
  IF res = "value"
    THEN [s |-> dispatch(s, "SET_USER", u), ret |-> "true"]
    ELSE [s |-> dispatch(s, "SET_ERROR", msg), ret |-> "false"]

\* ------------------------------------------------- settling of a request
\* the shape of what the ApiService method threw: a normalized AuthError
\* from handleError, or the plain Error of a success=false envelope
errShape(out, res) ==
  CASE res # "threw" /\ out # "rejected" -> "none"
    [] out = "fail" -> "Error"
    [] OTHER -> "AuthError"

\* request r settled with out: run the ApiService method's continuation, then
\* its caller's: the provider method, or (for a refresh started by the
\* response interceptor) the interceptor, which is left in resume
settle(s, r, out, u) ==
  LET k == s.req[r].kind
      sv == CASE k \in AuthKinds -> ApiService_login(s, out)
              [] k = "refresh" -> ApiService_refreshAccessToken(s, out)
              [] k = "logout" -> ApiService_logout(s, out)
              [] k = "verify" -> ApiService_verifyToken(s, out)
              [] OTHER -> ApiService_updateProfile(s, out)
      msg == thrownMessage(s, r, out)
      issued == IF out = "ok" /\ k \in AuthKinds \cup {"refresh"} THEN s.nextTok ELSE Null
      s1 == [sv.s EXCEPT !.req[r].st = "done", !.req[r].out = out,
                         !.req[r].svc = sv.res, !.req[r].issued = issued,
                         !.req[r].err = errShape(out, sv.res),
                         !.req[r].user = IF out = "ok" THEN u ELSE NoUser]
  IN IF s.req[r].parent # 0
       THEN [s1 EXCEPT !.resume = [id |-> s.req[r].parent, res |-> sv.res]]
       ELSE LET pv == CASE k \in AuthKinds ->
                             AuthProvider_login(s1, sv.res, u, issued, issued, msg)
                        [] k = "refresh" -> AuthProvider_refreshAccessToken(s1, sv.res)
                        [] k = "logout" -> AuthProvider_logout(s1, sv.res)
                        [] k = "verify" -> initializeAuth(s1, sv.res, u)
                        [] OTHER -> AuthProvider_updateProfile(s1, sv.res, u, msg,
                                                               s.req[r].data)
            IN [pv.s EXCEPT !.req[r].ret = pv.ret]

\* response interceptor, error branch, up to the await of refreshAccessToken
\* (which, a refresh token being held, sends POST /api/auth/refresh)
interceptorError(s, r) ==
  IF shouldRefresh(s.req[r].ans, s.refreshToken, s.req[r].retry)
    THEN send([s EXCEPT !.req[r].retry = TRUE, !.req[r].st = "refreshing",
                        !.req[r].kids = @ + 1],
              "refresh", r)
    ELSE settle(s, r, "rejected", NoUser)

\* response interceptor after the await: retry, fall through, or catch
interceptorResume(s, p, res) ==
  LET s0 == [s EXCEPT !.resume = NoResume, !.req[p].refreshRes = res]
  IN CASE res = "true" -> resend(s0, p)
       [] res = "false" -> settle(s0, p, "rejected", NoUser)
       [] OTHER -> settle(onTokenExpired(clearTokensFromStorage(s0)), p, "rejected", NoUser)

\* ---------------------------------------------------------------- operations
\* no continuation is pending: a new macrotask may run
Idle == resume.id = 0

\* a call that ended without sending a request
noRequest(s, kind, res, err, ret) ==
  [s EXCEPT !.req = Append(@,
     [FreeReq EXCEPT !.kind = kind, !.st = "done", !.svc = res, !.err = err,
                     !.ret = ret])]

\* variant: the branch without a token leaves loading as it is
initializeAuthNoToken_StillLoading(s) == s

\* initializeAuth when hasToken() is false
initializeAuthNoToken(s) == dispatch(s, "SET_LOADING", FALSE)

\* ApiService.verifyToken up to its await: null at once when no token is held
verifyToken(s) ==
  IF s.token = Null
    THEN noRequest(initializeAuth(s, "null", NoUser).s, "verify", "null", "none", "void")
    ELSE send(s, "verify", 0)

\* provider mount: the initializeAuth effect up to its first await
Mount ==
  /\ ~mounted
  /\ LET s0 == dispatch([Cur EXCEPT !.mounted = TRUE], "SET_LOADING", TRUE)
     IN IF hasToken(s0)
          THEN Becomes(verifyToken(s0))
          ELSE Becomes(initializeAuthNoToken(s0))

\* AuthProvider.login / loginWithFirebase / register up to the await
loginCall(s, k) ==
  send(dispatch(dispatch(s, "SET_LOADING", TRUE), "CLEAR_ERROR", Null), k, 0)

Login(k) ==
  /\ mounted /\ Idle /\ HasSlot(Cur)
  /\ Becomes(loginCall(Cur, k))

\* variant: the credentials are cleared before the logout request is sent
Logout_ClearFirst ==
  /\ mounted /\ Idle /\ HasSlot(Cur)
  /\ Becomes(send(clearTokensFromStorage(Cur), "logout", 0))

\* AuthProvider.logout up to the await
Logout ==
  /\ mounted /\ Idle /\ HasSlot(Cur)
  /\ Becomes(send(Cur, "logout", 0))

\* variant: the guard is missing
noRefreshToken_Never(s) == FALSE

\* the guard of ApiService.refreshAccessToken
noRefreshToken(s) == s.refreshToken = Null

\* AuthProvider.refreshAccessToken: ApiService.refreshAccessToken throws at once
\* when no refresh token is held, and the provider catches it
RefreshAccessToken ==
  /\ mounted /\ Idle /\ HasSlot(Cur)
  /\ IF noRefreshToken(Cur)
       THEN Becomes(noRequest(AuthProvider_refreshAccessToken(Cur, "threw").s,
                              "refresh", "threw", "Error", "false"))
       ELSE Becomes(send(Cur, "refresh", 0))

\* AuthProvider.updateProfile(data) up to the await
UpdateProfileWith(d) ==
  /\ mounted /\ Idle /\ HasSlot(Cur)
  /\ LET s1 == send(dispatch(Cur, "CLEAR_ERROR", Null), "update", 0)
     IN Becomes([s1 EXCEPT !.req[Len(s1.req)].data = d])

UpdateProfile == UpdateProfileWith(NoPartial)

\* the remote service answers request r
canAnswer(r, ans) ==
  /\ Idle
  /\ req[r].st = "inflight"
  /\ (ans \notin {"ok", "fail"} /\ shouldRefresh(ans, refreshToken, req[r].retry))
       => HasSlot(Cur)

\* the state after the answer: a 2xx response goes to the ApiService method,
\* anything else to the error handler of the response interceptor
answered(s, r, ans, u) ==
  LET s0 == [s EXCEPT !.req[r].ans = ans]
  IN IF ans \in {"ok", "fail"} THEN settle(s0, r, ans, u) ELSE interceptorError(s0, r)

Answer(r, ans, u) ==
  /\ canAnswer(r, ans)
  /\ Becomes(answered(Cur, r, ans, u))

\* the user the service sends with a success answer to r
UsersFor(r) ==
  IF req[r].kind \in AuthKinds \cup {"verify", "update"} THEN ServerUsers ELSE {NoUser}

AnswerOk == \E r \in ReqIds : \E u \in UsersFor(r) : Answer(r, "ok", u)
AnswerFail == \E r \in ReqIds : Answer(r, "fail", NoUser)
Answer401 == \E r \in ReqIds : Answer(r, "s401", NoUser)
AnswerError == \E r \in ReqIds : Answer(r, "err", NoUser)
NoAnswer == \E r \in ReqIds : Answer(r, "noresp", NoUser)

\* the interceptor that awaited refreshAccessToken continues
Resume ==
  /\ resume.id # 0
  /\ Becomes(interceptorResume(Cur, resume.id, resume.res))

\* localStorage when the ApiService is constructed: empty, or the two tokens
\* of an earlier session
EmptyStorage == [k \in Keys |-> Null]
SessionStorage == [k \in Keys |-> 1]

NoCall == [fn |-> "none"]
NoComponent == [c |-> "none"]

InitState(storages, cb, n) ==
  /\ storage \in storages
  /\ token = storage[TokenKey]
  /\ refreshToken = storage[RefreshTokenKey]
  /\ req = <<>>
  /\ store = initialState
  /\ resume = NoResume
  /\ tokenExpiredCalls = 0
  /\ nextTok = 2
  /\ mounted = FALSE
  /\ config = [onTokenExpired |-> cb]
  /\ cap = n

InitWith(storages, cb, n) ==
  /\ InitState(storages, cb, n)
  /\ pure = NoCall
  /\ ui = NoComponent

\* the AuthProvider and the ApiService it constructs: new ApiService({ apiUrl })
Init == InitWith({EmptyStorage, SessionStorage}, FALSE, MaxCalls)

Next ==
  \/ Mount
  \/ Login("login")
  \/ Logout
  \/ RefreshAccessToken
  \/ UpdateProfile
  \/ AnswerOk
  \/ AnswerFail
  \/ Answer401
  \/ AnswerError
  \/ NoAnswer
  \/ Resume

Spec == Init /\ [][Next]_vars

\* requests of a stored session through an ApiService that is configured with
\* an onTokenExpired callback
InitTransport == InitWith({SessionStorage}, TRUE, MaxReq)

NextTransport ==
  \/ Mount
  \/ UpdateProfile
  \/ AnswerOk
  \/ AnswerFail
  \/ Answer401
  \/ AnswerError
  \/ NoAnswer
  \/ Resume

SpecTransport == InitTransport /\ [][NextTransport]_vars

\* ==================================================================== claims
LoggedOut == [initialState EXCEPT !.loading = FALSE]
CredentialsEmpty(t, rt, st) == t = Null /\ rt = Null /\ st = EmptyStorage

\* the refresh calls started by the response interceptor for request r
Kids(r) == {f \in ReqIds : req[f].parent = r}
\* requests whose interceptor awaits a refresh
Waiting == {r \in ReqIds : req[r].st = "refreshing"}
RefreshCalls == {f \in ReqIds : req[f].kind = "refresh" /\ req[f].sent > 0}
RefreshAnswered == \E f \in RefreshCalls : req[f].ans # "none"

\* C1: when two or more requests have received a 401 and no refresh has been
\* answered yet, exactly one POST /api/auth/refresh has been issued.
C1_SingleFlightRefresh ==
  (Cardinality(Waiting) >= 2 /\ ~RefreshAnswered) => Cardinality(RefreshCalls) = 1

\* C2: a request whose 401 led to a refresh call that the service answered with
\* success has caused exactly one refresh call, is sent exactly once more with
\* the Authorization header of the token that refresh issued, and its caller
\* gets the answer of the second send.
C2_RefreshThenRetryOnce ==
  \A r \in ReqIds : \A f \in Kids(r) :
    (req[f].sent = 1 /\ req[f].out = "ok" /\ resume.id # r) =>
       /\ Cardinality(Kids(r)) = 1
       /\ req[r].sent = 2
       /\ req[r].hdr = req[f].issued
       /\ (req[r].st = "done" /\ req[r].ans = "ok") => req[r].out = "ok"
       /\ (req[r].st = "done" /\ req[r].ans \in {"s401", "err", "noresp"}) =>
             req[r].out = "rejected"

C2_Witness ==
  \E r \in ReqIds : \E f \in Kids(r) :
    /\ req[f].sent = 1 /\ req[f].out = "ok"
    /\ req[r].sent = 2 /\ req[r].st = "done" /\ req[r].out = "ok"
    /\ req[r].hdr = req[f].issued /\ req[r].hdr # 1

\* C3: no request is sent more than twice (one re-issue), no request starts
\* more than one refresh, and a 401 on the re-issued request is rejected to the
\* caller.
C3_AtMostOneRetry ==
  \A r \in ReqIds :
    /\ req[r].sent <= 2
    /\ req[r].kids <= 1
    /\ Cardinality(Kids(r)) <= 1
    /\ (req[r].sent = 2 /\ req[r].ans = "s401") =>
          (req[r].st = "done" /\ req[r].out = "rejected" /\ req[r].err = "AuthError")

C3_Witness ==
  \E r \in ReqIds :
    /\ req[r].sent = 2 /\ req[r].ans = "s401" /\ req[r].st = "done"
    /\ req[r].out = "rejected" /\ req[r].kids = 1
    /\ \E q \in ReqIds \ {r} : req[q].parent = 0 /\ req[q].retry

\* requests rejected after the refresh their 401 started was turned down by
\* the service (error status, or success=false)
RefreshRejected ==
  {r \in ReqIds : /\ req[r].kind # "refresh" /\ req[r].st = "done"
                  /\ \E f \in Kids(r) : req[f].ans \in {"fail", "err"}}

\* C4: once a refresh started by a 401 was turned down by the service, both
\* tokens are cleared, onTokenExpired has been invoked exactly once, and every
\* originating request was rejected with a normalized error.
C4_ExpiryCallbackOnce ==
  RefreshRejected # {} =>
    /\ tokenExpiredCalls = 1
    /\ CredentialsEmpty(token, refreshToken, storage)
    /\ \A r \in RefreshRejected : req[r].out = "rejected" /\ req[r].err = "AuthError"

\* C5: handling a 401 makes one refresh call whatever the refresh endpoint
\* answers: a POST /api/auth/refresh answered with 401 starts no further
\* refresh.
C5_RefreshNotRefreshed ==
  \A f \in ReqIds : req[f].kind = "refresh" => req[f].kids = 0

\* C6: the step that completes a logout returns normally to the caller and
\* leaves the Credential Store empty and the store logged out, whatever the
\* remote call answered.
C6_LogoutAlwaysClears ==
  [][\A r \in ReqIds :
       (req[r].kind = "logout" /\ req[r].st # "done" /\ req'[r].st = "done") =>
          /\ req'[r].ret = "void" /\ req'[r].svc = "value"
          /\ CredentialsEmpty(token', refreshToken', storage')
          /\ store' = LoggedOut]_vars

C6_Witness ==
  \E r \in ReqIds :
    /\ req[r].kind = "logout" /\ req[r].st = "done" /\ req[r].out = "rejected"
    /\ req[r].hdr = 1
    /\ CredentialsEmpty(token, refreshToken, storage)
    /\ store = LoggedOut

\* C7: the step that completes verifyToken after any failure (error status, no
\* response, success=false) returns null and leaves both tokens cleared.
C7_VerifyFailureClears ==
  [][\A r \in ReqIds :
       (/\ req[r].kind = "verify" /\ req[r].st # "done" /\ req'[r].st = "done"
        /\ req'[r].out # "ok") =>
          /\ req'[r].svc = "null"
          /\ CredentialsEmpty(token', refreshToken', storage')]_vars

\* C8: refreshAccessToken called while no refresh token is held throws at
\* once: no request is sent and the Credential Store is unchanged.
C8_RefreshWithoutTokenNoCall ==
  [][(/\ Len(req') = Len(req) + 1
      /\ req'[Len(req')].kind = "refresh" /\ req'[Len(req')].parent = 0
      /\ refreshToken = Null) =>
        /\ req'[Len(req')].sent = 0
        /\ req'[Len(req')].svc = "threw"
        /\ \A i \in ReqIds : req'[i] = req[i]
        /\ <<token', refreshToken', storage'>> = <<token, refreshToken, storage>>]_vars

C8_Witness ==
  \E r \in ReqIds :
    /\ req[r].kind = "refresh" /\ req[r].parent = 0 /\ req[r].sent = 0
    /\ req[r].svc = "threw" /\ req[r].ret = "false"
    /\ store = LoggedOut

\* C9: the step that completes a provider refreshAccessToken which the service
\* turned down (error status, or success=false) does not throw from the
\* ApiService method, returns false, and leaves the Credential Store empty and
\* the store logged out.
C9_RejectedRefreshClears ==
  [][\A r \in ReqIds :
       (/\ req[r].kind = "refresh" /\ req[r].parent = 0
        /\ req[r].st # "done" /\ req'[r].st = "done"
        /\ req'[r].ans \in {"fail", "err"}) =>
          /\ req'[r].svc = "false"
          /\ req'[r].ret = "false"
          /\ CredentialsEmpty(token', refreshToken', storage')
          /\ store' = LoggedOut]_vars

\* C10: the initialization step taken while no access token is held sends no
\* request and ends with loading=false, isAuthenticated=false, user=null.
C10_InitWithoutTokenNoCall ==
  [][(~mounted /\ mounted' /\ token = Null) =>
        /\ req' = req
        /\ ~store'.loading
        /\ ~store'.isAuthenticated
        /\ store'.user = NoUser]_vars

C10_Witness ==
  /\ mounted /\ Len(req) = 0 /\ storage = EmptyStorage
  /\ ~store.loading /\ ~store.isAuthenticated

\* the refresh calls made, directly or through further refreshes, while the
\* 401 of request r is handled
RECURSIVE Under(_, _)
Under(f, r) ==
  IF req[f].parent = 0 THEN FALSE
  ELSE req[f].parent = r \/ Under(req[f].parent, r)

\* C11: the initialization sequence does not retry without bound: the verify
\* call of the mount leads to at most one refresh call before it settles and
\* loading is cleared.
C11_InitBoundedRetry ==
  \A r \in ReqIds :
    req[r].kind = "verify" => Cardinality({f \in ReqIds : Under(f, r)}) <= 1

\* ------------------------------------------- the reducer under every dispatch
\* UserRole
Roles == {"user", "premium", "moderator", "admin", "super_admin"}
\* payloads of the reducer actions
UserPayloads == [uid : {1, 2}, role : Roles] \cup {NoUser}
TokenPayloads == {Null, 1, 2}
ErrorPayloads == {NoError, "server message", "Login failed"}

DispatchSetLoading == \E b \in BOOLEAN : Becomes(dispatch(Cur, "SET_LOADING", b))
DispatchSetUser == \E u \in UserPayloads : Becomes(dispatch(Cur, "SET_USER", u))
DispatchSetToken == \E t \in TokenPayloads : Becomes(dispatch(Cur, "SET_TOKEN", t))
DispatchSetRefreshToken ==
  \E t \in TokenPayloads : Becomes(dispatch(Cur, "SET_REFRESH_TOKEN", t))
DispatchSetError == \E e \in ErrorPayloads : Becomes(dispatch(Cur, "SET_ERROR", e))
DispatchClearError == Becomes(dispatch(Cur, "CLEAR_ERROR", Null))
DispatchLogout == Becomes(dispatch(Cur, "LOGOUT", Null))

InitStore == InitWith({EmptyStorage}, FALSE, 0)

NextStore ==
  \/ DispatchSetLoading
  \/ DispatchSetUser
  \/ DispatchSetToken
  \/ DispatchSetRefreshToken
  \/ DispatchSetError
  \/ DispatchClearError
  \/ DispatchLogout

SpecStore == InitStore /\ [][NextStore]_vars

\* C12: in every state of the store the three flags are the derivations of the
\* current user: isAuthenticated iff a user is set, isAdmin iff its role is
\* ADMIN or SUPER_ADMIN, isSuperAdmin iff its role is SUPER_ADMIN.
C12_FlagsDerivedFromUser ==
  /\ store.isAuthenticated = (store.user # NoUser)
  /\ store.isAdmin = (store.user.role \in {"admin", "super_admin"})
  /\ store.isSuperAdmin = (store.user.role = "super_admin")

C12_Witness ==
  /\ store.user.role = "super_admin" /\ store.isAdmin /\ store.isSuperAdmin
  /\ store.isAuthenticated /\ store.token # Null /\ store.error # NoError

\* ------------------------------- authentication and profile methods together
\* Partial<User> inputs of updateProfile
ProfileInputs == {[role |-> "user"], [role |-> "super_admin"]}

InitAuth == InitWith({EmptyStorage, SessionStorage}, FALSE, MaxAuth)

NextAuth ==
  \/ Mount
  \/ \E k \in AuthKinds : Login(k)
  \/ \E d \in ProfileInputs : UpdateProfileWith(d)
  \/ AnswerOk
  \/ AnswerFail
  \/ Answer401
  \/ AnswerError
  \/ NoAnswer
  \/ Resume

SpecAuth == InitAuth /\ [][NextAuth]_vars

\* request r settles in this step
Settles(r) == req[r].st # "done" /\ req'[r].st = "done"

\* C13: the step that completes a successful login, loginWithFirebase or
\* register stores the two tokens of the response in the Credential Store,
\* sets the store's user to the response's user and its tokens to the same two
\* tokens with loading=false and error=null, and the provider method returns
\* true.
C13_LoginStoresResponse ==
  [][\A r \in ReqIds :
       (req[r].kind \in AuthKinds /\ Settles(r) /\ req'[r].out = "ok") =>
          /\ req'[r].issued # Null /\ req'[r].user \in ServerUsers
          /\ token' = req'[r].issued /\ refreshToken' = req'[r].issued
          /\ storage' = [k \in Keys |-> req'[r].issued]
          /\ store'.user = req'[r].user
          /\ store'.token = req'[r].issued /\ store'.refreshToken = req'[r].issued
          /\ ~store'.loading /\ store'.error = NoError
          /\ req'[r].ret = "true"]_vars

C13_Witness ==
  \E r \in ReqIds :
    /\ req[r].kind = "register" /\ req[r].st = "done" /\ req[r].out = "ok"
    /\ req[r].ret = "true" /\ req[r].issued # Null
    /\ token = req[r].issued /\ refreshToken = req[r].issued
    /\ storage[RefreshTokenKey] = req[r].issued
    /\ store.user = req[r].user /\ store.token = req[r].issued

\* C14: the step that completes a failed login, loginWithFirebase, register or
\* updateProfile (error status, no response, success=false) returns false,
\* leaves a non-null error and loading=false in the store, and leaves the
\* store's user and derived flags as they were.
C14_FailureSetsErrorKeepsUser ==
  [][\A r \in ReqIds :
       (/\ req[r].kind \in AuthKinds \cup {"update"} /\ req[r].parent = 0
        /\ Settles(r) /\ req'[r].out # "ok") =>
          /\ req'[r].ret = "false"
          /\ store'.error # NoError /\ ~store'.loading
          /\ store'.user = store.user
          /\ store'.isAuthenticated = store.isAuthenticated
          /\ store'.isAdmin = store.isAdmin
          /\ store'.isSuperAdmin = store.isSuperAdmin]_vars

C14_Witness ==
  \E r \in ReqIds :
    /\ req[r].kind \in AuthKinds /\ req[r].st = "done" /\ req[r].out = "fail"
    /\ req[r].ret = "false" /\ store.error # NoError /\ ~store.loading
    /\ store.user # NoUser /\ store.isAuthenticated

\* C15: the step that completes a successful updateProfile(partial) sets the
\* store's user to the object of the response, whatever the previous user and
\* the partial input were, with the flags derived from the returned role.
C15_ProfileIsServerObject ==
  [][\A r \in ReqIds :
       (req[r].kind = "update" /\ Settles(r) /\ req'[r].out = "ok") =>
          /\ req'[r].user \in ServerUsers
          /\ store'.user = req'[r].user
          /\ store'.isAuthenticated
          /\ store'.isAdmin = (req'[r].user.role \in {"admin", "super_admin"})
          /\ store'.isSuperAdmin = (req'[r].user.role = "super_admin")
          /\ req'[r].ret = "true"]_vars

C15_Witness ==
  \E r \in ReqIds :
    /\ req[r].kind = "update" /\ req[r].st = "done" /\ req[r].out = "ok"
    /\ req[r].data.role = "super_admin" /\ req[r].user.role = "user"
    /\ store.user = req[r].user /\ ~store.isAdmin /\ ~store.isSuperAdmin
    /\ \E q \in ReqIds : q < r /\ req[q].user.role = "super_admin"

\* ------------------------------------------------------------- Access Gate
\* every variable but pure
program == <<token, refreshToken, storage, req, store, resume, tokenExpiredCalls, nextTok, mounted, config, cap, ui>>

\* rendered elements of ProtectedRoute
Loading == "Loading..."
Fallback == "fallback"
RoleDenied == "You don't have permission to access this page."
PermissionsDenied == "You don't have the required permissions to access this page."
Children == "children"
NotRendered == "none"

\* requiredRole not given (undefined is falsy)
NoRole == ""
\* variant: the hierarchy puts moderators at the level of admins
level_ModeratorAsAdmin(role) ==
  CASE role = "user" -> 1
    [] role = "premium" -> 2
    [] role = "moderator" -> 4
    [] role = "admin" -> 4
    [] role = "super_admin" -> 5
    [] OTHER -> 0

\* own keys of the roleHierarchy object literal
level(role) ==
  CASE role = "user" -> 1
    [] role = "premium" -> 2
    [] role = "moderator" -> 3
    [] role = "admin" -> 4
    [] role = "super_admin" -> 5
    [] OTHER -> 0
\* names that roleHierarchy[name] finds on Object.prototype: the value is a
\* function, it is truthy, so || 0 keeps it, and as a number it is NaN
InheritedKeys == {"constructor"}

\* userRoleLevel < requiredRoleLevel; every comparison with NaN is false
userRoleLevelBelow(userRole, requiredRole) ==
  IF userRole \in InheritedKeys \/ requiredRole \in InheritedKeys
    THEN FALSE
    ELSE level(userRole) < level(requiredRole)

\* if (requiredRole && user.role !== requiredRole) { ... if (userRoleLevel < requiredRoleLevel)
roleDenied(userRole, requiredRole) ==
  /\ requiredRole # NoRole
  /\ userRole # requiredRole
  /\ userRoleLevelBelow(userRole, requiredRole)

includes(list, p) == \E j \in DOMAIN list : list[j] = p

hasRequiredPermissions_Some(userPermissions, requiredPermissions) ==
  \E i \in DOMAIN requiredPermissions : includes(userPermissions, requiredPermissions[i])

\* requiredPermissions.every(permission => userPermissions.includes(permission))
hasRequiredPermissions(userPermissions, requiredPermissions) ==
  \A i \in DOMAIN requiredPermissions : includes(userPermissions, requiredPermissions[i])

\* an optional array: given is false for undefined
NoList == [given |-> FALSE, list |-> <<>>]

\* if (requiredPermissions && requiredPermissions.length > 0) { user.permissions || [] ...
permissionsDenied(permissions, requiredPermissions) ==
  /\ requiredPermissions.given
  /\ Len(requiredPermissions.list) > 0
  /\ ~hasRequiredPermissions(IF permissions.given THEN permissions.list ELSE <<>>,
                             requiredPermissions.list)

ProtectedRoute_EitherCheck(p) ==
  IF p.loading THEN Loading
  ELSE IF ~p.isAuthenticated \/ ~p.user.present THEN Fallback
  ELSE IF p.requiredRole # NoRole /\ ~roleDenied(p.user.role, p.requiredRole) THEN Children
  ELSE IF roleDenied(p.user.role, p.requiredRole) THEN RoleDenied
  ELSE IF permissionsDenied(p.user.permissions, p.requiredPermissions) THEN PermissionsDenied
  ELSE Children

\* the component, on the props and the useAuth() values it reads
ProtectedRoute(p) ==
  IF p.loading THEN Loading
  ELSE IF ~p.isAuthenticated \/ ~p.user.present THEN Fallback
  ELSE IF roleDenied(p.user.role, p.requiredRole) THEN RoleDenied
  ELSE IF permissionsDenied(p.user.permissions, p.requiredPermissions) THEN PermissionsDenied
  ELSE Children

\* inputs: the five roles, two strings that are no role
GateRoles == Roles \cup {"guest"} \cup InheritedKeys
Permissions == {"read:profile", "manage:roles"}
PermLists ==
  {[given |-> TRUE, list |-> l] :
     l \in UNION {[1..n -> Permissions] : n \in 0..MaxPerms}} \cup {NoList}
GateUsers ==
  [present : {TRUE}, role : GateRoles, permissions : PermLists]
    \cup {[present |-> FALSE, role |-> "none", permissions |-> NoList]}
\* isAuthenticated is !!user in every state of the store (authReducer)
GateProps ==
  {[loading |-> l, user |-> u, isAuthenticated |-> u.present,
    requiredRole |-> rr, requiredPermissions |-> rp] :
     l \in BOOLEAN, u \in GateUsers, rr \in GateRoles \cup {NoRole}, rp \in PermLists}

RenderProtectedRoute ==
  /\ pure.fn = "ProtectedRoute"
  /\ pure.out = NotRendered
  /\ pure' = [pure EXCEPT !.out = ProtectedRoute(pure.props)]
  /\ UNCHANGED program

InitGate ==
  /\ InitState({EmptyStorage}, FALSE, 0)
  /\ \E p \in GateProps : pure = [fn |-> "ProtectedRoute", props |-> p, out |-> NotRendered]
  /\ ui = NoComponent

NextGate == RenderProtectedRoute

SpecGate == InitGate /\ [][NextGate]_vars

\* a route rendered for a user that is present, after loading
Gated ==
  /\ pure.fn = "ProtectedRoute"
  /\ pure.out # NotRendered
  /\ ~pure.props.loading
  /\ pure.props.user.present

\* C16: for every pair of actual and required role the role check of the gate
\* passes exactly when level(actual) >= level(required), the levels being
\* user 1, premium 2, moderator 3, admin 4, super_admin 5 and 0 for every
\* string that is no role.
C16_RoleCheckByLevel ==
  (Gated /\ pure.props.requiredRole # NoRole) =>
    ((pure.out # RoleDenied) <=>
       level(pure.props.user.role) >= level(pure.props.requiredRole))

\* what the permission lists of the rendered route say: every required
\* permission is one of the user's
EveryRequiredHeld ==
  LET mine == IF pure.props.user.permissions.given
                THEN {pure.props.user.permissions.list[j] :
                        j \in DOMAIN pure.props.user.permissions.list}
                ELSE {}
      wanted == {pure.props.requiredPermissions.list[i] :
                   i \in DOMAIN pure.props.requiredPermissions.list}
  IN wanted \subseteq mine

\* C17: for every permission list of the user and every required list, the
\* permission check of the gate passes exactly when every required permission
\* is a member of the user's permissions; an empty or absent requirement
\* always passes.
C17_PermissionCheckByMembership ==
  (Gated /\ pure.out # RoleDenied) =>
    /\ (pure.out # PermissionsDenied) <=> EveryRequiredHeld
    /\ (~pure.props.requiredPermissions.given \/ pure.props.requiredPermissions.list = <<>>)
         => pure.out # PermissionsDenied

C17_Witness ==
  /\ Gated
  /\ pure.out = PermissionsDenied
  /\ pure.props.user.permissions.list = <<"read:profile">>
  /\ pure.props.requiredPermissions.list = <<"read:profile", "manage:roles">>

SentNow(r) == req'[r].sent > (IF r \in DOMAIN req THEN req[r].sent ELSE 0)

\* C19: every request that goes out carries the access token the Credential
\* Store holds when it is sent as its Authorization header, and carries no
\* Authorization header when no access token is held.
C19_HeaderIsHeldToken ==
  [][\A r \in DOMAIN req' : SentNow(r) => req'[r].hdr = token']_vars

\* a request sent without a header after a logout that had carried one
C19_Witness ==
  \E q \in ReqIds : \E r \in ReqIds :
    /\ q < r
    /\ req[q].kind = "logout" /\ req[q].st = "done" /\ req[q].hdr # Null
    /\ req[r].sent >= 1 /\ req[r].hdr = Null
    /\ token = Null

\* ------------------------------------------------------ error normalization
\* enum AuthErrorCode
AuthErrorCode ==
  {"INVALID_CREDENTIALS", "TOKEN_EXPIRED", "INSUFFICIENT_PERMISSIONS", "NETWORK_ERROR",
   "VALIDATION_ERROR", "USER_NOT_FOUND", "EMAIL_ALREADY_EXISTS", "UNKNOWN_ERROR"}

\* own keys of the codeMap object literal; each maps to the code of its name
codeMap ==
  {"INVALID_CREDENTIALS", "TOKEN_EXPIRED", "INSUFFICIENT_PERMISSIONS",
   "VALIDATION_ERROR", "USER_NOT_FOUND", "EMAIL_ALREADY_EXISTS"}

\* what codeMap[code] is for a name found on Object.prototype: a function
InheritedValue == "function"
\* absent string (undefined and '' are falsy)
NoString == ""

\* return codeMap[code] || AuthErrorCode.UNKNOWN_ERROR
mapErrorCode(code) ==
  IF code \in codeMap THEN code
  ELSE IF code \in InheritedKeys THEN InheritedValue
  ELSE "UNKNOWN_ERROR"

\* e.origin: "response" when error.response is set, "request" when only
\* error.request is set, "setup" when neither is
handleError(e) ==
  IF e.origin = "response"
    THEN [code |-> mapErrorCode(IF e.code # NoString THEN e.code ELSE "UNKNOWN_ERROR"),
          message |-> IF e.dataMessage # NoString THEN e.dataMessage ELSE "An error occurred"]
  ELSE IF e.origin = "request"
    THEN [code |-> "NETWORK_ERROR", message |-> "Network error occurred"]
  ELSE [code |-> "UNKNOWN_ERROR",
        message |-> IF e.message # NoString THEN e.message ELSE "Unknown error occurred"]

\* inputs: the three origins; as data.error.code the eight codes, none, a code
\* the SDK does not know and an inherited name
Origins == {"response", "request", "setup"}
ServerCodes == AuthErrorCode \cup {NoString, "RATE_LIMITED"} \cup InheritedKeys
Messages == {NoString, "server message"}
TransportErrors ==
  [origin : Origins, code : ServerCodes, dataMessage : Messages, message : Messages]

NotReturned == [code |-> "none", message |-> "none"]

ApplyHandleError ==
  /\ pure.fn = "handleError"
  /\ pure.out = NotReturned
  /\ pure' = [pure EXCEPT !.out = handleError(pure.error)]
  /\ UNCHANGED program

InitErrors ==
  /\ InitState({EmptyStorage}, FALSE, 0)
  /\ \E e \in TransportErrors : pure = [fn |-> "handleError", error |-> e, out |-> NotReturned]
  /\ ui = NoComponent

NextErrors == ApplyHandleError

SpecErrors == InitErrors /\ [][NextErrors]_vars

\* C20: handleError maps a transport failure by its origin: for a received
\* response the code is the server's error code when that is one of the eight
\* taxonomy codes and UNKNOWN_ERROR otherwise, also when the server sends no
\* code; with no response received it is NETWORK_ERROR; for a request that
\* could not be sent it is UNKNOWN_ERROR.
C20_HandleErrorByOrigin ==
  (pure.fn = "handleError" /\ pure.out # NotReturned) =>
    pure.out.code =
      (CASE pure.error.origin = "response" ->
              (IF pure.error.code \in AuthErrorCode THEN pure.error.code ELSE "UNKNOWN_ERROR")
         [] pure.error.origin = "request" -> "NETWORK_ERROR"
         [] OTHER -> "UNKNOWN_ERROR")

\* ------------------------------------------------ what the operations surface
\* C21: every failure that a service operation surfaces to its caller has the
\* shape {code, message} of a normalized error, also the failure of a
\* success=false envelope and the failure for a missing refresh token.
C21_UniformErrorShape ==
  \A r \in ReqIds :
    (req[r].st = "done" /\ req[r].svc = "threw") => req[r].err = "AuthError"

\* the remote service has answered with success only requests that carried
\* a token: a verify, logout or profile request with its Authorization header,
\* a refresh request with a refresh token in its body
ServiceHonoursTokens ==
  \A r \in ReqIds :
    req[r].out = "ok" =>
      CASE req[r].kind \in AuthKinds -> TRUE
        [] req[r].kind = "refresh" -> req[r].body # Null
        [] OTHER -> req[r].hdr # Null

\* C22: no state of the Session State Store that an observer can see is
\* partially updated: whenever the store holds a user it holds a token and a
\* refresh token as well. (Stated for the runs in which the service honours
\* tokens, and with the dispatches of one continuation seen as one update.)
C22_NoPartialStore ==
  ServiceHonoursTokens =>
    (store.user # NoUser => (store.token # Null /\ store.refreshToken # Null))

\* the provider is mounted and no operation is in flight
Quiet == mounted /\ Idle /\ \A r \in ReqIds : req[r].st = "done"

\* C23: whenever no operation is in flight, the token and the refresh token of
\* the store equal the access and the refresh token of the Credential Store,
\* also after refreshes that the Transport Client started on a 401. (Stated
\* for the runs in which the service honours tokens and every call has ended
\* in success, a 401 having been answered by a refresh and a retry.)
C23_StoreMirrorsCredentials ==
  (ServiceHonoursTokens /\ Quiet /\ \A r \in ReqIds : req[r].out = "ok") =>
    (store.token = token /\ store.refreshToken = refreshToken)

\* ------------------------------------------------ writes to the Credential Store
\* this step runs the continuation of the completed network call r: r settles
\* in it, or the interceptor that awaited the refresh call r resumes in it
Continues(r) ==
  /\ req[r].sent >= 1
  /\ \/ Settles(r)
     \/ resume.id # 0 /\ req[r].parent = resume.id /\ req[r].st = "done"

\* the three kinds of write
Saves == refreshToken' # Null /\ refreshToken' # refreshToken
ReplacesAccess == token' # Null /\ token' # token /\ refreshToken' = refreshToken
Clears ==
  /\ token' = Null /\ refreshToken' = Null
  /\ <<token, refreshToken>> # <<Null, Null>>

\* C24: every write to the Credential Store happens in the continuation of a
\* completed network call: a save only after a success response to login,
\* register or loginWithFirebase, a replacement of the access token only
\* after a success response to a refresh, a clear only after a logout, verify
\* or refresh call has completed; memory and persistent storage change
\* together and in no other way.
C24_WritesFollowCompletedCalls ==
  [][/\ Saves =>
          \E r \in ReqIds : Continues(r) /\ req[r].kind \in AuthKinds /\ req'[r].out = "ok"
     /\ ReplacesAccess =>
          \E r \in ReqIds : Continues(r) /\ req[r].kind = "refresh" /\ req'[r].out = "ok"
     /\ Clears =>
          \E r \in ReqIds : Continues(r) /\ req[r].kind \in {"logout", "verify", "refresh"}
     /\ <<token, refreshToken, storage>>' # <<token, refreshToken, storage>>
          => (Saves \/ ReplacesAccess \/ Clears)
    ]_vars

\* an access token replaced by a refresh, later cleared by a completed logout
C24_Witness ==
  \E q \in ReqIds : \E r \in ReqIds :
    /\ q < r
    /\ req[q].kind = "refresh" /\ req[q].out = "ok" /\ req[q].issued # Null
    /\ req[r].kind = "logout" /\ req[r].st = "done"
    /\ CredentialsEmpty(token, refreshToken, storage)

\* C25: starting from an empty or a consistent Credential Store, a stored
\* refresh token implies a stored access token, in memory and in persistent
\* storage: the store never rests with a refresh token and no access token
\* (it holds in every state, a refresh in flight or not).
C25_RefreshTokenImpliesAccessToken ==
  /\ refreshToken # Null => token # Null
  /\ storage[RefreshTokenKey] # Null => storage[TokenKey] # Null

\* both tokens held after a refresh has replaced the access token
C25_Witness ==
  \E r \in ReqIds :
    /\ req[r].kind = "refresh" /\ req[r].st = "done" /\ req[r].out = "ok"
    /\ refreshToken # Null /\ token = req[r].issued /\ token # refreshToken
    /\ storage[TokenKey] = token /\ storage[RefreshTokenKey] = refreshToken

\* C26: a successful refreshAccessToken replaces the access token only: the
\* refresh token is the same before and after, in memory and in persistent
\* storage.
C26_RefreshKeepsRefreshToken ==
  [][\A r \in ReqIds :
       (Settles(r) /\ req[r].kind = "refresh" /\ req'[r].out = "ok") =>
         /\ refreshToken' = refreshToken
         /\ storage'[RefreshTokenKey] = storage[RefreshTokenKey]
         /\ token' = req'[r].issued /\ storage'[TokenKey] = req'[r].issued
         /\ token' # token
    ]_vars

\* a refresh started by the interceptor has replaced the access token
C26_Witness ==
  \E r \in ReqIds :
    /\ req[r].kind = "refresh" /\ req[r].parent # 0 /\ req[r].out = "ok"
    /\ refreshToken # Null /\ refreshToken = req[r].body
    /\ token = req[r].issued /\ token # refreshToken

\* ------------------------------------------------------ overlapping logins
\* a login, loginWithFirebase or register call that has succeeded
LoggedIn(r) == req[r].kind \in AuthKinds /\ req[r].st = "done" /\ req[r].out = "ok"
\* call x has been made and nothing has come back for it
Untouched(x) == req[x].st = "inflight" /\ req[x].sent = 1 /\ req[x].ans = "none"

\* C27: of two login calls that both succeeded, the one whose response
\* arrived last (the service issues tokens in the order of its answers) gives
\* the store its user, whichever was started first, and the tokens of the
\* Credential Store and of the store are the tokens of that same login.
C27_LastResponseWins ==
  \A q \in ReqIds : \A r \in ReqIds :
    (/\ q # r /\ LoggedIn(q) /\ LoggedIn(r)
     /\ req[q].issued < req[r].issued
     /\ \A x \in ReqIds \ {q, r} : Untouched(x))
    => /\ store.user = req[r].user
       /\ store.token = req[r].issued /\ store.refreshToken = req[r].issued
       /\ token = req[r].issued /\ refreshToken = req[r].issued
       /\ storage = [k \in Keys |-> req[r].issued]

\* the login started first is answered last, with another user
C27_Witness ==
  \E q \in ReqIds : \E r \in ReqIds :
    /\ r < q /\ LoggedIn(q) /\ LoggedIn(r)
    /\ req[q].issued < req[r].issued
    /\ req[q].user # req[r].user
    /\ store.user = req[r].user /\ token = req[r].issued

\* ------------------------------------------------------------------ useStats
\* every variable but ui
backend == <<token, refreshToken, storage, req, store, resume, tokenExpiredCalls, nextTok, mounted, config, cap, pure>>

\* one useStats instance. alive: its component is mounted; autoRefresh, token,
\* refreshInterval: the dependencies of the last effect run; handle: the
\* interval the last effect run created (0: none), which its cleanup closes
\* over; timers: the intervals the runtime keeps active; calls: getUserStats
\* calls started; source, firedBy: what started the last one
StatsInstance(a, t, i) ==
  [c |-> "useStats", alive |-> FALSE, autoRefresh |-> a, token |-> t,
   refreshInterval |-> i, handle |-> 0, timers |-> {}, nextTimer |-> 1,
   calls |-> 0, renders |-> 0, source |-> "none", firedBy |-> 0, error |-> NoError,
   pending |-> 0, loading |-> FALSE, stats |-> Null]

AuthenticationRequired == "Authentication required"

\* refresh(): without a token it sets the error and calls nothing; pending
\* counts the getUserStats calls awaited
refresh(u, src, id) ==
  IF ~u.token
    THEN [u EXCEPT !.error = AuthenticationRequired]
    ELSE [u EXCEPT !.calls = @ + 1, !.pending = @ + 1, !.source = src,
                   !.firedBy = id, !.loading = TRUE, !.error = NoError]

\* variant: the effect returns no cleanup
clearInterval_Leak(u) == [u EXCEPT !.handle = 0]

\* the cleanup the effect returned: clearInterval(interval)
clearInterval(u) == [u EXCEPT !.timers = @ \ {u.handle}, !.handle = 0]

\* the auto-refresh effect, run for the current dependencies
autoRefreshEffect(u) ==
  LET u1 == [u EXCEPT !.renders = @ + 1]
  IN IF u1.autoRefresh /\ u1.token
       THEN [refresh(u1, "effect", 0) EXCEPT !.handle = u1.nextTimer,
                                             !.timers = @ \cup {u1.nextTimer},
                                             !.nextTimer = @ + 1]
       ELSE u1

\* the component mounts: the effect runs for the first time
MountStats ==
  /\ ui.c = "useStats" /\ ~ui.alive /\ ui.renders = 0
  /\ ui' = autoRefreshEffect([ui EXCEPT !.alive = TRUE])
  /\ UNCHANGED backend

\* a render with a changed autoRefresh, token or refreshInterval: the cleanup
\* of the previous effect run, then the effect
RenderStats ==
  /\ ui.c = "useStats" /\ ui.alive /\ ui.renders < MaxRenders
  /\ \E a \in BOOLEAN : \E t \in BOOLEAN : \E i \in {1, 2} :
       /\ <<a, t, i>> # <<ui.autoRefresh, ui.token, ui.refreshInterval>>
       /\ ui' = autoRefreshEffect([clearInterval(ui) EXCEPT !.autoRefresh = a, !.token = t,
                                                            !.refreshInterval = i])
  /\ UNCHANGED backend

\* the owning scope is torn down: the cleanup of the last effect run
UnmountStats ==
  /\ ui.c = "useStats" /\ ui.alive
  /\ ui' = [clearInterval(ui) EXCEPT !.alive = FALSE]
  /\ UNCHANGED backend

\* an interval the runtime keeps active fires: setInterval(refresh, ...)
TimerFires ==
  /\ ui.c = "useStats" /\ ui.calls < MaxPolls
  /\ \E id \in ui.timers : ui' = refresh(ui, "timer", id)
  /\ UNCHANGED backend

\* the component calls the returned refresh
ManualRefresh ==
  /\ ui.c = "useStats" /\ ui.alive /\ ui.calls < MaxPolls
  /\ ui' = refresh(ui, "manual", 0)
  /\ UNCHANGED backend

InitStats ==
  /\ InitState({EmptyStorage}, FALSE, 0)
  /\ pure = NoCall
  /\ \E a \in BOOLEAN : \E t \in BOOLEAN : \E i \in {1, 2} : ui = StatsInstance(a, t, i)

NextStats ==
  \/ MountStats
  \/ RenderStats
  \/ UnmountStats
  \/ TimerFires
  \/ ManualRefresh

SpecStats == InitStats /\ [][NextStats]_vars

\* C28: at any time at most one polling timer of a useStats instance is
\* active, and it is the one of the current autoRefresh, token and interval;
\* after the owning scope is torn down none is active, so that no timer
\* starts a getUserStats call after the teardown or for earlier dependencies.
C28_PollingStopsOnTeardown ==
  /\ [](/\ Cardinality(ui.timers) <= 1
        /\ ui.timers \subseteq {ui.handle}
        /\ ~ui.alive => ui.timers = {})
  /\ [][(ui'.calls > ui.calls /\ ui'.source = "timer") =>
          /\ ui.alive /\ ui.autoRefresh /\ ui.token
          /\ ui'.firedBy = ui.handle]_vars

\* a timer polled, the dependencies changed and a new timer polled, then the
\* scope was torn down
C28_Witness ==
  /\ ~ui.alive /\ ui.renders >= 2
  /\ ui.source = "timer" /\ ui.firedBy = 2
  /\ ui.calls = MaxPolls
  /\ ui.timers = {}

\* ------------------------------------------------- LoginForm and RegisterForm
\* strings of the form fields, as sequences of characters
Lower == {"a", "b"}
Upper == {"A"}
Digit == {"1"}
Special == {"@", "$", "!", "%", "*", "?", "&"}

\* passwordRegex: the four lookaheads, then one character of the class
passwordRegex(password) ==
  /\ \E j \in DOMAIN password : password[j] \in Lower
  /\ \E j \in DOMAIN password : password[j] \in Upper
  /\ \E j \in DOMAIN password : password[j] \in Digit
  /\ \E j \in DOMAIN password : password[j] \in Special
  /\ Len(password) >= 1
  /\ password[1] \in Lower \cup Upper \cup Digit \cup Special

\* LoginForm.handleSubmit, the validation part
validateLogin(f) ==
  IF f.email = <<>> \/ f.password = <<>> THEN "Please fill in all fields"
  ELSE IF ~includes(f.email, "@") THEN "Please enter a valid email address"
  ELSE NoError

\* variant: the confirmation is not compared
validateForm_NoConfirm(f) ==
  IF f.email = <<>> \/ f.password = <<>> \/ f.displayName = <<>>
    THEN "Please fill in all required fields"
  ELSE IF ~includes(f.email, "@") THEN "Please enter a valid email address"
  ELSE IF Len(f.password) < 8 THEN "Password must be at least 8 characters long"
  ELSE IF ~passwordRegex(f.password) THEN "Password must contain at least one uppercase letter, one lowercase letter, one number, and one special character"
  ELSE NoError

\* RegisterForm.validateForm
validateForm(f) ==
  IF f.email = <<>> \/ f.password = <<>> \/ f.displayName = <<>>
    THEN "Please fill in all required fields"
  ELSE IF ~includes(f.email, "@") THEN "Please enter a valid email address"
  ELSE IF Len(f.password) < 8 THEN "Password must be at least 8 characters long"
  ELSE IF f.password # f.confirmPassword THEN "Passwords do not match"
  ELSE IF ~passwordRegex(f.password) THEN "Password must contain at least one uppercase letter, one lowercase letter, one number, and one special character"
  ELSE NoError

\* the form's state: its fields, localError, the store error its last render
\* read (the one handleSubmit closes over), the call it awaits
Form(c, e, p, cp, n) ==
  [c |-> c, email |-> e, password |-> p, confirmPassword |-> cp, displayName |-> n,
   localError |-> NoError, error |-> NoError, awaiting |-> 0, result |-> "none"]

\* handleSubmit up to its return or its await
handleSubmit(s) ==
  LET f == s.ui
      v == IF f.c = "LoginForm" THEN validateLogin(f) ELSE validateForm(f)
      s1 == dispatch(s, "CLEAR_ERROR", Null)
      f1 == [f EXCEPT !.localError = NoError, !.error = s.store.error, !.result = "none"]
  IN IF v # NoError
       THEN [s1 EXCEPT !.ui = [f1 EXCEPT !.localError = v, !.result = "invalid"]]
       ELSE LET s2 == loginCall(s1, IF f.c = "LoginForm" THEN "login" ELSE "register")
            IN [s2 EXCEPT !.ui = [f1 EXCEPT !.awaiting = Len(s2.req)]]

\* handleSubmit after the await, when the awaited provider method has returned
afterAwait(s) ==
  LET f == s.ui
  IN IF f.awaiting = 0 \/ s.req[f.awaiting].st # "done" THEN s
     ELSE IF s.req[f.awaiting].ret = "true"
       THEN [s EXCEPT !.ui = [f EXCEPT !.awaiting = 0, !.result = "success"]]
       ELSE [s EXCEPT !.ui =
               [f EXCEPT !.awaiting = 0, !.result = "failed",
                         !.localError =
                            IF f.error # NoError THEN f.error
                            ELSE IF f.c = "LoginForm" THEN "Login failed"
                            ELSE "Registration failed"]]

\* const displayError = localError || error
displayError == IF ui.localError # NoError THEN ui.localError ELSE store.error

IsForm == ui.c \in {"LoginForm", "RegisterForm"}

SubmitForm ==
  /\ IsForm /\ mounted /\ Idle /\ ui.awaiting = 0
  /\ HasSlot(Cur)
  /\ Becomes(handleSubmit(Cur))

FormAnswer(r, ans, u) ==
  /\ IsForm
  /\ canAnswer(r, ans)
  /\ Becomes(afterAwait(answered(Cur, r, ans, u)))

FormAnswerOk == \E r \in ReqIds : \E u \in UsersFor(r) : FormAnswer(r, "ok", u)
FormAnswerFail == \E r \in ReqIds : FormAnswer(r, "fail", NoUser)
FormAnswer401 == \E r \in ReqIds : FormAnswer(r, "s401", NoUser)
FormAnswerError == \E r \in ReqIds : FormAnswer(r, "err", NoUser)
FormNoAnswer == \E r \in ReqIds : FormAnswer(r, "noresp", NoUser)

FormResume ==
  /\ IsForm
  /\ resume.id # 0
  /\ Becomes(afterAwait(interceptorResume(Cur, resume.id, resume.res)))

Emails == {<<>>, <<"a", "b">>, <<"a", "@", "b">>}
Passwords ==
  {<<>>, <<"a", "A", "1", "!">>, <<"a", "a", "a", "a", "a", "A", "1", "1">>,
   <<"a", "A", "1", "!", "a", "a", "a", "a">>}
Names == {<<>>, <<"a">>}
Forms ==
  {Form("LoginForm", e, p, <<>>, <<>>) : e \in Emails, p \in Passwords}
    \cup {Form("RegisterForm", x[1], x[2], x[3], x[4]) :
            x \in Emails \X Passwords \X Passwords \X Names}

InitForms ==
  /\ InitState({EmptyStorage}, FALSE, MaxForm)
  /\ pure = NoCall
  /\ ui \in Forms

NextForms ==
  \/ Mount
  \/ SubmitForm
  \/ FormAnswerOk
  \/ FormAnswerFail
  \/ FormAnswer401
  \/ FormAnswerError
  \/ FormNoAnswer
  \/ FormResume

SpecForms == InitForms /\ [][NextForms]_vars

\* the fields fail the client-side validation: a required field is missing,
\* the email has no '@', and for a registration the password is shorter than
\* 8, differs from its confirmation, or lacks a lower-case letter, an
\* upper-case letter, a digit or a special character
InvalidFields(f) ==
  \/ f.email = <<>> \/ f.password = <<>>
  \/ \A j \in DOMAIN f.email : f.email[j] # "@"
  \/ /\ f.c = "RegisterForm"
     /\ \/ f.displayName = <<>>
        \/ Len(f.password) < 8
        \/ f.password # f.confirmPassword
        \/ \E class \in {Lower, Upper, Digit, Special} :
             \A j \in DOMAIN f.password : f.password[j] \notin class

\* C29: a LoginForm or RegisterForm whose fields fail the client-side
\* validation never calls login or register, so that no request is made, and
\* its submission sets a local error message.
C29_InvalidFormMakesNoCall ==
  [][(IsForm /\ InvalidFields(ui)) =>
       /\ req' = req
       /\ ui' # ui => (ui'.localError # NoError /\ ui'.awaiting = 0 /\ displayError' = ui'.localError)
    ]_vars

\* a registration with a password of 8 characters without a special character
C29_Witness ==
  /\ ui.c = "RegisterForm" /\ ui.result = "invalid"
  /\ ui.email = <<"a", "@", "b">> /\ ui.displayName # <<>>
  /\ ui.password = ui.confirmPassword /\ Len(ui.password) = 8
  /\ ui.localError = "Password must contain at least one uppercase letter, one lowercase letter, one number, and one special character"
  /\ req = <<>>

\* C30: after a login attempt that failed, the error LoginForm displays is
\* the message this failure put into the error field of the store, not a
\* generic message and not the store error of an earlier attempt.
C30_DisplaysThisFailure ==
  (ui.c = "LoginForm" /\ ui.result = "failed") => displayError = store.error

\* ------------------------------------------------------------- storage keys
\* C31: when the configuration names no storage keys, a held access token is
\* persisted under the key "app_token" and a held refresh token under
\* "app_refresh_token".
C31_DefaultStorageKeys ==
  /\ token # Null =>
       ("app_token" \in DOMAIN storage /\ storage["app_token"] = token)
  /\ refreshToken # Null =>
       ("app_refresh_token" \in DOMAIN storage /\ storage["app_refresh_token"] = refreshToken)

\* ------------------------------------------------------------ after a logout
\* C32: once a logout has completed and no login, register or
\* loginWithFirebase is started afterwards, the Credential Store is empty,
\* also when a refresh call started before the logout succeeds after it.
\* (Stated for the runs without any login call, in which the service honours
\* tokens.)
C32_EmptyAfterLogout ==
  (/\ ServiceHonoursTokens
   /\ \A r \in ReqIds : req[r].kind \notin AuthKinds
   /\ \E q \in ReqIds : req[q].kind = "logout" /\ req[q].st = "done")
  => CredentialsEmpty(token, refreshToken, storage)

\* C33: when the Transport Client has cleared the credentials because a
\* refresh it started for a 401 failed, the store is logged out: with no
\* operation in flight isAuthenticated is not true while the Credential Store
\* is empty. (Stated for the runs that consist of logins, profile updates and
\* the refreshes the interceptor started, and in which the service honours
\* tokens.)
C33_ClearedMeansLoggedOut ==
  (/\ Quiet /\ ServiceHonoursTokens
   /\ \A r \in ReqIds :
        \/ req[r].kind \in AuthKinds \cup {"update"}
        \/ req[r].kind = "refresh" /\ req[r].parent # 0)
  => ~(store.isAuthenticated /\ CredentialsEmpty(token, refreshToken, storage))

\* C34: a failed login, register or loginWithFirebase leaves the Credential
\* Store as it was before the call, also when the service answers it with 401
\* while the refresh token of an earlier session is stored. (Stated for the
\* runs that start from a stored session, verified at mount, in which every
\* other call is a login that failed or a refresh the interceptor started
\* for one.)
C34_FailedLoginKeepsCredentials ==
  (/\ \E r \in ReqIds : req[r].kind = "verify"
   /\ \A r \in ReqIds :
        \/ req[r].kind = "verify" /\ req[r].out = "ok" /\ req[r].kids = 0
        \/ req[r].kind \in AuthKinds /\ req[r].st = "done" /\ req[r].out # "ok"
        \/ /\ req[r].kind = "refresh" /\ req[r].parent # 0
           /\ req[req[r].parent].kind \in AuthKinds)
  => (token = 1 /\ refreshToken = 1 /\ storage = SessionStorage)

\* C35: a 401 received while no refresh token is held starts no refresh call
\* and no re-issue: in that step the request is rejected with the normalized
\* error, nothing is sent, onTokenExpired is not invoked and the Credential
\* Store is unchanged (verifyToken, refreshAccessToken and logout clear it
\* themselves when their request is rejected: that is not the interceptor).
C35_No401RefreshWithoutToken ==
  [][\A r \in ReqIds :
       (/\ req[r].st = "inflight" /\ req'[r].ans = "s401"
        /\ refreshToken = Null)
       => /\ Len(req') = Len(req)
          /\ req'[r].st = "done" /\ req'[r].out = "rejected"
          /\ req'[r].err = "AuthError"
          /\ req'[r].sent = req[r].sent /\ req'[r].kids = req[r].kids
          /\ \A f \in ReqIds : req'[f].sent = req[f].sent
          /\ req[r].kind \notin {"verify", "refresh", "logout"}
               => /\ token' = token /\ refreshToken' = refreshToken
                  /\ storage' = storage
          /\ tokenExpiredCalls' = tokenExpiredCalls]_vars

\* a first 401 was rejected without a refresh, under a configured callback
C35_Witness ==
  \E r \in ReqIds :
    /\ req[r].kind = "update" /\ req[r].st = "done" /\ req[r].ans = "s401"
    /\ req[r].out = "rejected" /\ ~req[r].retry /\ req[r].kids = 0
    /\ refreshToken = Null /\ config.onTokenExpired

\* ------------------------------------------------------- useUsers and useStats
\* An admin page that uses both hooks.  Its calls go through the hooks' own
\* ApiService instances; a call is awaited until it resolves or rejects.
MaxUserCalls == 3

ListOps == {"fetchUsers", "searchUsers"}
BoolOps == {"updateUser", "changeUserRole", "deleteUser"}

InitialPagination == [page |-> 1, limit |-> 20, total |-> 0, totalPages |-> 0]

\* the hooks of the page.  token: useAuth() returned a token at the last
\* render; users, pagination, loading, error: the state of useUsers; calls:
\* the operations invoked (op, uid, st, sent: a request was issued, ret: what
\* the promise resolved to); stats: the useStats instance
UsersInstance(t) ==
  [c |-> "useUsers", token |-> t, users |-> <<>>, pagination |-> InitialPagination,
   loading |-> FALSE, error |-> NoError, calls |-> <<>>,
   stats |-> StatsInstance(FALSE, t, 1)]

Call(op, uid, st, sent, ret) ==
  [op |-> op, uid |-> uid, st |-> st, sent |-> sent, ret |-> ret]

\* the branch every operation starts with: if (!token) { setError(...); return }
authRequired(u, op, uid, ret) ==
  [u EXCEPT !.error = AuthenticationRequired,
            !.calls = Append(@, Call(op, uid, "done", FALSE, ret))]

\* the operation up to its await
awaits(u, op, uid) == [u EXCEPT !.calls = Append(@, Call(op, uid, "inflight", TRUE, "none"))]

\* finally { setLoading(false) }
setLoadingFalse(u) == [u EXCEPT !.loading = FALSE]

fetchUsers(u) ==
  IF ~u.token
    THEN authRequired(u, "fetchUsers", 0, "void")
    ELSE awaits([u EXCEPT !.loading = TRUE, !.error = NoError], "fetchUsers", 0)

searchUsers(u) ==
  IF ~u.token
    THEN authRequired(u, "searchUsers", 0, "void")
    ELSE awaits([u EXCEPT !.loading = TRUE, !.error = NoError], "searchUsers", 0)

updateUser(u, uid) ==
  IF ~u.token
    THEN authRequired(u, "updateUser", uid, "false")
    ELSE awaits([u EXCEPT !.error = NoError], "updateUser", uid)

changeUserRole(u, uid) ==
  IF ~u.token
    THEN authRequired(u, "changeUserRole", uid, "false")
    ELSE awaits([u EXCEPT !.error = NoError], "changeUserRole", uid)

\* variant: deleteUser calls the service whatever the token
deleteUser_NoGuard(u, uid) == awaits([u EXCEPT !.error = NoError], "deleteUser", uid)

deleteUser(u, uid) ==
  IF ~u.token
    THEN authRequired(u, "deleteUser", uid, "false")
    ELSE awaits([u EXCEPT !.error = NoError], "deleteUser", uid)

\* users of the list: uid, role and the revision of the profile
Entry(uid, role, rev) == [uid |-> uid, role |-> role, rev |-> rev]
\* the user the page's row actions are applied to
Uids == {1}
NewRole == "admin"
\* lists the service answers getUsers and searchUsers with
ServerLists == {<<>>, <<Entry(1, "user", 0), Entry(2, "user", 0)>>}

\* the call awaited as calls[i] resolved: the rest of the try block, then
\* finally
resolved(u, i, list) ==
  LET op == u.calls[i].op
      uid == u.calls[i].uid
      u1 == [u EXCEPT !.calls[i].st = "done",
                      !.calls[i].ret = IF op \in BoolOps THEN "true" ELSE "void"]
  IN CASE op = "fetchUsers" ->
            setLoadingFalse(
              [u1 EXCEPT !.users = list,
                         !.pagination = [page |-> 1, limit |-> 20, total |-> Len(list),
                                         totalPages |-> IF list = <<>> THEN 0 ELSE 1]])
       [] op = "searchUsers" ->
            setLoadingFalse(
              [u1 EXCEPT !.users = list,
                         !.pagination = [page |-> 1, limit |-> Len(list),
                                         total |-> Len(list), totalPages |-> 1]])
       [] op = "updateUser" ->
            [u1 EXCEPT !.users = [j \in DOMAIN @ |->
                                    IF @[j].uid = uid
                                      THEN Entry(uid, @[j].role, @[j].rev + 1)
                                      ELSE @[j]]]
       [] op = "changeUserRole" ->
            [u1 EXCEPT !.users = [j \in DOMAIN @ |->
                                    IF @[j].uid = uid
                                      THEN [@[j] EXCEPT !.role = NewRole]
                                      ELSE @[j]]]
       [] OTHER ->
            LET keep(e) == e.uid # uid
            IN [u1 EXCEPT !.users = SelectSeq(@, keep)]

\* the call awaited as calls[i] rejected: the catch block, then finally
rejected(u, i) ==
  LET op == u.calls[i].op
      u1 == [u EXCEPT !.calls[i].st = "done",
                      !.calls[i].ret = IF op \in BoolOps THEN "false" ELSE "void",
                      !.error = "server message"]
  IN IF op \in ListOps THEN setLoadingFalse(u1) ELSE u1

IsUsers == ui.c = "useUsers"
\* MaxUserCalls bounds the operations invoked, of both hooks together
CanCall == IsUsers /\ Len(ui.calls) + ui.stats.calls < MaxUserCalls

\* a render after the store's token changed
RenderUsers ==
  /\ IsUsers
  /\ ui' = [ui EXCEPT !.token = ~@, !.stats.token = ~@]
  /\ UNCHANGED backend

FetchUsers == CanCall /\ ui' = fetchUsers(ui) /\ UNCHANGED backend
SearchUsers == CanCall /\ ui' = searchUsers(ui) /\ UNCHANGED backend
UpdateUser == CanCall /\ (\E uid \in Uids : ui' = updateUser(ui, uid)) /\ UNCHANGED backend
ChangeUserRole ==
  CanCall /\ (\E uid \in Uids : ui' = changeUserRole(ui, uid)) /\ UNCHANGED backend
DeleteUser == CanCall /\ (\E uid \in Uids : ui' = deleteUser(ui, uid)) /\ UNCHANGED backend

UsersResolve ==
  /\ IsUsers
  /\ \E i \in DOMAIN ui.calls : \E list \in ServerLists :
       /\ ui.calls[i].st = "inflight"
       /\ ui.calls[i].op \notin ListOps => list = <<>>
       /\ ui' = resolved(ui, i, list)
  /\ UNCHANGED backend

UsersReject ==
  /\ IsUsers
  /\ \E i \in DOMAIN ui.calls : ui.calls[i].st = "inflight" /\ ui' = rejected(ui, i)
  /\ UNCHANGED backend

\* the page calls the refresh of useStats
StatsRefresh ==
  /\ CanCall
  /\ ui' = [ui EXCEPT !.stats = refresh(@, "manual", 0)]
  /\ UNCHANGED backend

\* getUserStats resolved: setStats(result), then finally
StatsResolve ==
  /\ IsUsers /\ ui.stats.pending > 0
  /\ ui' = [ui EXCEPT !.stats.pending = @ - 1, !.stats.stats = 1,
                      !.stats.loading = FALSE]
  /\ UNCHANGED backend

\* getUserStats rejected: the catch block, then finally
StatsReject ==
  /\ IsUsers /\ ui.stats.pending > 0
  /\ ui' = [ui EXCEPT !.stats.pending = @ - 1, !.stats.error = "server message",
                      !.stats.loading = FALSE]
  /\ UNCHANGED backend

InitUsers ==
  /\ InitState({EmptyStorage}, FALSE, 0)
  /\ pure = NoCall
  /\ \E t \in BOOLEAN : ui = UsersInstance(t)

NextUsers ==
  \/ RenderUsers
  \/ FetchUsers
  \/ SearchUsers
  \/ UpdateUser
  \/ ChangeUserRole
  \/ DeleteUser
  \/ UsersResolve
  \/ UsersReject
  \/ StatsRefresh
  \/ StatsResolve
  \/ StatsReject

SpecUsers == InitUsers /\ [][NextUsers]_vars

\* the fetchUsers and searchUsers calls in flight
ListCallsInFlight ==
  {i \in DOMAIN ui.calls : ui.calls[i].op \in ListOps /\ ui.calls[i].st = "inflight"}

\* C36: in useUsers, loading is true exactly while at least one fetchUsers or
\* searchUsers call is in flight, also when two such calls overlap.
C36_LoadingWhileInFlight ==
  ui.c = "useUsers" => (ui.loading <=> ListCallsInFlight # {})

\* C37: every useUsers operation and useStats.refresh invoked while the token
\* is null issues no network call, sets the hook's error to 'Authentication
\* required', leaves the user list, the pagination and the stats unchanged,
\* and the boolean-returning operations return false.
C37_NoTokenNoCall ==
  [][(ui.c = "useUsers" /\ ~ui.token) =>
       /\ Len(ui'.calls) > Len(ui.calls) =>
            LET k == ui'.calls[Len(ui'.calls)]
            IN /\ Len(ui'.calls) = Len(ui.calls) + 1
               /\ ~k.sent /\ k.st = "done"
               /\ k.op \in BoolOps => k.ret = "false"
               /\ k.op \in ListOps => k.ret = "void"
               /\ ui'.error = AuthenticationRequired
               /\ ui'.users = ui.users /\ ui'.pagination = ui.pagination
               /\ ui'.loading = ui.loading
               /\ ui'.stats = ui.stats
       /\ StatsRefresh =>
            /\ ui'.stats.calls = ui.stats.calls
            /\ ui'.stats.pending = ui.stats.pending
            /\ ui'.stats.error = AuthenticationRequired
            /\ ui'.stats.stats = ui.stats.stats
            /\ ui'.users = ui.users /\ ui'.pagination = ui.pagination
            /\ ui'.calls = ui.calls]_vars

\* with a list and stats loaded, deleteUser and refresh were invoked without
\* a token
C37_Witness ==
  /\ ui.c = "useUsers" /\ ~ui.token
  /\ ui.users # <<>> /\ ui.stats.stats # Null
  /\ ui.error = AuthenticationRequired /\ ui.stats.error = AuthenticationRequired
  /\ \E i \in DOMAIN ui.calls :
       /\ ui.calls[i].op = "deleteUser" /\ ~ui.calls[i].sent
       /\ ui.calls[i].ret = "false"

\* C38: the store's role flags agree with the access gate: for every user
\* with one of the five roles, isAdmin is true iff the gate's role check
\* passes for requiredRole = admin, and isSuperAdmin is true iff it passes for
\* requiredRole = super_admin.
C38_FlagsAgreeWithGate ==
  (store.user # NoUser /\ store.user.role \in Roles) =>
    /\ store.isAdmin <=> ~roleDenied(store.user.role, "admin")
    /\ store.isSuperAdmin <=> ~roleDenied(store.user.role, "super_admin")

\* a moderator is stored: no flag is set and both role checks deny
C38_Witness ==
  /\ store.user # NoUser /\ store.user.role = "moderator"
  /\ ~store.isAdmin /\ ~store.isSuperAdmin
  /\ roleDenied(store.user.role, "admin")
====
